---- MODULE Spec2Model ----
(***************************************************************************)
(* SIA Review Pulse (src/app.py): a Streamlit script that is executed top  *)
(* to bottom on every UI interaction.  The model follows one execution of  *)
(* the script statement group by statement group: sidebar widgets, filter  *)
(* pipeline, empty-state stop, summary metrics, the two charts, the two    *)
(* keyword clouds and the recent-reviews table.                            *)
(*                                                                         *)
(* Encoding of the dataframe cells:                                        *)
(*   - numbers and timestamps are naturals, the null (NaN / NaT) is NaN;   *)
(*   - a timestamp counts ticks, TicksPerDay ticks make a calendar day     *)
(*     and DaysPerMonth days a calendar month;                             *)
(*   - categorical strings are strings, the null is NaNStr;                *)
(*   - free text is the sequence of its whitespace-separated words, the    *)
(*     null is NaNText;                                                    *)
(*   - a frame is the sequence of its rows, each row carrying its pandas   *)
(*     index label in the field "index".                                   *)
(* The passthrough column helpful_votes is only displayed and is left out. *)
(***************************************************************************)
EXTENDS Integers, Sequences, FiniteSets, TLC

\* ------------------------------------------------------------- bounds
MaxRows == 2
MaxRating == 6
MaxTs == 5
TicksPerDay == 2
DaysPerMonth == 2

\* ------------------------------------------------- program constants
DefaultMonthsBack == 12
DefaultMinRating == 1
DefaultMaxRating == 5
PositiveFloor == 4
NegativeCeil == 2
PositiveCloudLo == 4
PositiveCloudHi == 5
NegativeCloudLo == 1
NegativeCloudHi == 2
TableRows == 20

\* ------------------------------------------------------- null values
NaN == -1
Unparseable == -2
NaNStr == "<NA>"
NaNText == << "<NA>" >>

\* --------------------------------------------------------- the loader
\* pd.to_datetime(..., errors="coerce"): an empty or unparseable cell is NaT.
to_datetime(cell) == IF cell < 0 THEN NaN ELSE cell

\* pd.to_numeric(..., errors="coerce"): an empty or unparseable cell is NaN.
to_numeric(cell) == IF cell < 0 THEN NaN ELSE cell

\* Series.dt.date: the calendar day of a timestamp, NaT for NaT.
dt_date(ts) == IF ts = NaN THEN NaN ELSE ts \div TicksPerDay

load_data(csv) ==
    [i \in 1..Len(csv) |->
        [index              |-> i - 1,
         published_date     |-> to_datetime(csv[i].published_date),
         published_platform |-> csv[i].published_platform,
         type               |-> csv[i].type,
         rating             |-> to_numeric(csv[i].rating),
         title              |-> csv[i].title,
         text               |-> csv[i].text,
         date               |-> dt_date(to_datetime(csv[i].published_date))]]

\* ------------------------------------------------------ frame helpers
Rows(frame) == {frame[i] : i \in 1..Len(frame)}

Column(frame, col) == {frame[i][col] : i \in 1..Len(frame)}

SetMin(S) == CHOOSE x \in S : \A y \in S : x <= y

SetMax(S) == CHOOSE x \in S : \A y \in S : y <= x

\* Series.min() / Series.max(): nulls are skipped.
series_min(frame, col) == SetMin(Column(frame, col) \ {NaN})

series_max(frame, col) == SetMax(Column(frame, col) \ {NaN})

notna_any(frame, col) == Column(frame, col) \ {NaN} # {}

\* ---------------------------------------------------- sidebar widgets
platform_options(frame) == {"All"} \cup (Column(frame, "published_platform") \ {NaNStr})

review_type_options(frame) == {"All"} \cup (Column(frame, "type") \ {NaNStr})

min_rating(frame) ==
    IF notna_any(frame, "rating") THEN series_min(frame, "rating") ELSE DefaultMinRating

max_rating(frame) ==
    IF notna_any(frame, "rating") THEN series_max(frame, "rating") ELSE DefaultMaxRating

\* st.slider with a pair as value: any lo <= hi between the two ends.
slider_values(frame) ==
    {<<lo, hi>> \in (min_rating(frame)..max_rating(frame)) \X (min_rating(frame)..max_rating(frame)) :
        lo <= hi}

min_date(frame) == series_min(frame, "date")

max_date(frame) == series_max(frame, "date")

\* st.date_input returns a calendar day; the days between the first and the
\* last day of the table are enumerated, in either order for the two pickers.
date_input_values(frame) == min_date(frame)..max_date(frame)

default_end_date(frame) == max_date(frame)

\* max(min_date, max_date - DateOffset(months=12))
default_start_date(frame) ==
    LET back == max_date(frame) - DefaultMonthsBack * DaysPerMonth
    IN  IF min_date(frame) >= back THEN min_date(frame) ELSE back

\* The value of every widget before the user touches it.
default_widgets(frame) ==
    [selected_platform |-> "All",
     selected_type     |-> "All",
     rating_range      |-> <<min_rating(frame), max_rating(frame)>>,
     start_date        |-> default_start_date(frame),
     end_date          |-> default_end_date(frame)]

\* Every combination of values the sidebar can hold.
widget_values(frame) ==
    [selected_platform : platform_options(frame),
     selected_type     : review_type_options(frame),
     rating_range      : slider_values(frame),
     start_date        : date_input_values(frame),
     end_date          : date_input_values(frame)]

\* ----------------------------------------------------- filter pipeline
\* Mutant: the range taken exclusive of its bounds.
between_exclusive(x, lo, hi) == x # NaN /\ lo < x /\ x < hi

\* Series.between(lo, hi, inclusive="both"); a comparison with NaN is False.
between(x, lo, hi) == x # NaN /\ lo <= x /\ x <= hi

\* Mutant: the two dates used in the order entered.
sorted_dates_as_entered(s, e) == <<s, e>>

\* sorted([start_date, end_date])
sorted_dates(s, e) == IF s <= e THEN <<s, e>> ELSE <<e, s>>

\* filtered[filtered["published_platform"] == selected_platform]
platform_mask(row, selected_platform) == row.published_platform = selected_platform

\* filtered[filtered["type"] == selected_type]
type_mask(row, selected_type) == row.type = selected_type

rating_mask(row, rating_range) == between(row.rating, rating_range[1], rating_range[2])

\* Mutant: the end of the date range is not enforced.
date_mask_no_end(row, s, e) == row.date # NaN /\ row.date >= s

\* Mutant: rows without a date pass the date range.
date_mask_keep_null(row, s, e) == row.date = NaN \/ (row.date >= s /\ row.date <= e)

\* (filtered["date"] >= start_date) & (filtered["date"] <= end_date)
date_mask(row, s, e) == row.date # NaN /\ row.date >= s /\ row.date <= e

\* Truthiness of a date_input value: a datetime.date is truthy, None is not.
is_set(d) == d # NaN

\* Lines 53-63: the copy of the table narrowed predicate by predicate; the
\* result also holds the values start_date and end_date have afterwards.
filter_pipeline(frame, w) ==
    LET by_platform(row) == platform_mask(row, w.selected_platform)
        by_type(row)     == type_mask(row, w.selected_type)
        by_rating(row)   == rating_mask(row, w.rating_range)
        f1 == IF w.selected_platform # "All" THEN SelectSeq(frame, by_platform) ELSE frame
        f2 == IF w.selected_type # "All" THEN SelectSeq(f1, by_type) ELSE f1
        f3 == SelectSeq(f2, by_rating)
        both    == is_set(w.start_date) /\ is_set(w.end_date)
        range   == IF both THEN sorted_dates(w.start_date, w.end_date)
                           ELSE <<w.start_date, w.end_date>>
        by_date(row) == date_mask(row, range[1], range[2])
        f4 == IF both THEN SelectSeq(f3, by_date) ELSE f3
    IN  [filtered |-> f4, start_date |-> range[1], end_date |-> range[2]]

\* ------------------------------------------------------ summary metrics
\* Exact fractions stand for the floating-point results.
Frac(n, d) == [num |-> n, den |-> d]

RECURSIVE SumRatings(_)
SumRatings(frame) ==
    IF frame = <<>> THEN 0
    ELSE (IF Head(frame).rating = NaN THEN 0 ELSE Head(frame).rating) + SumRatings(Tail(frame))

\* Series.mean(): nulls are skipped.
mean_rating(frame) ==
    LET notna(row) == row.rating # NaN
    IN  Frac(SumRatings(frame), Len(SelectSeq(frame, notna)))

\* Mutant: a rating of exactly 4 is not counted as positive.
is_positive_strict(row) == row.rating # NaN /\ row.rating > PositiveFloor

\* (filtered["rating"] >= 4).mean() * 100; NaN >= 4 is False.
is_positive(row) == row.rating # NaN /\ row.rating >= PositiveFloor

\* (filtered["rating"] <= 2).mean() * 100; NaN <= 2 is False.
is_negative(row) == row.rating # NaN /\ row.rating <= NegativeCeil

positive_share_of(frame) == Frac(100 * Len(SelectSeq(frame, is_positive)), Len(frame))

negative_share_of(frame) == Frac(100 * Len(SelectSeq(frame, is_negative)), Len(frame))

\* Series.median(): nulls are skipped; the middle value, or the mean of the
\* two middle values, of the sorted ratings.
KthSmallest(frame, k) ==
    CHOOSE v \in Column(frame, "rating") \ {NaN} :
        LET below(row)   == row.rating # NaN /\ row.rating < v
            atMost(row)  == row.rating # NaN /\ row.rating <= v
        IN  Len(SelectSeq(frame, below)) < k /\ k <= Len(SelectSeq(frame, atMost))

median_of(frame) ==
    LET notna(row) == row.rating # NaN
        n == Len(SelectSeq(frame, notna))
    IN  IF n = 0 THEN Frac(0, 0)
        ELSE IF n % 2 = 1 THEN Frac(KthSmallest(frame, (n + 1) \div 2), 1)
        ELSE Frac(KthSmallest(frame, n \div 2) + KthSmallest(frame, n \div 2 + 1), 2)

\* --------------------------------------------------------------- charts
\* DataFrame.dropna(subset=[col])
dropna(frame, col) ==
    LET notna(row) == row[col] # NaN
    IN  SelectSeq(frame, notna)

\* The bar chart's data: count() per rating of the rows with a rating.
ratings_chart_data(frame) ==
    LET kept == dropna(frame, "rating")
    IN  [r \in Column(kept, "rating") |->
            LET same(row) == row.rating = r IN Len(SelectSeq(kept, same))]

\* The calendar month a timestamp falls in.
month_of(ts) == (ts \div TicksPerDay) \div DaysPerMonth

\* Mutant: the bucket of the last month is left out.
trend_of_open_end(frame) ==
    LET kept   == dropna(frame, "published_date")
        months == {month_of(ts) : ts \in Column(kept, "published_date")}
    IN  IF kept = <<>> THEN <<>>
        ELSE [k \in 1..(SetMax(months) - SetMin(months)) |->
                LET m == SetMin(months) + k - 1
                    in_month(row) == month_of(row.published_date) = m
                IN  [published_date |-> m, reviews |-> Len(SelectSeq(kept, in_month))]]

\* dropna / set_index / resample("M") / size / reset_index: one bucket per
\* calendar month from the first to the last month present, in order.
trend_of(frame) ==
    LET kept   == dropna(frame, "published_date")
        months == {month_of(ts) : ts \in Column(kept, "published_date")}
    IN  IF kept = <<>> THEN <<>>
        ELSE [k \in 1..(SetMax(months) - SetMin(months) + 1) |->
                LET m == SetMin(months) + k - 1
                    in_month(row) == month_of(row.published_date) = m
                IN  [published_date |-> m, reviews |-> Len(SelectSeq(kept, in_month))]]

\* ------------------------------------------------------- keyword clouds
custom_stopwords ==
    {"flight", "flights", "airline", "airlines", "singapore", "sia", "would", "also", "one"}

\* wordcloud.STOPWORDS, the words of it the modelled texts use.
STOPWORDS == {"the", "and", "was"}

stopwords == STOPWORDS \cup custom_stopwords

\* fillna(""): a null text has no words.
fillna(cell) == IF cell = NaNText THEN <<>> ELSE cell

\* frame[["title", "text"]].fillna("").agg(" ".join, axis=1), the rows joined
\* by " " and stripped: the words of every title and text, in row order.
\* A frame without rows gives the empty text.
RECURSIVE build_review_text(_)
build_review_text(frame) ==
    IF frame = <<>> THEN <<>>
    ELSE fillna(Head(frame).title) \o fillna(Head(frame).text) \o build_review_text(Tail(frame))

\* WordCloud.process_text: the words left once the stopwords are excluded.
cloud_words(text) ==
    LET kept(word) == word \notin stopwords
    IN  SelectSeq(text, kept)

positive_reviews_of(frame) ==
    LET keep(row) == between(row.rating, PositiveCloudLo, PositiveCloudHi)
    IN  SelectSeq(frame, keep)

negative_reviews_of(frame) ==
    LET keep(row) == between(row.rating, NegativeCloudLo, NegativeCloudHi)
    IN  SelectSeq(frame, keep)

\* --------------------------------------------------------------- table
\* sort_values("published_date", ascending=False): latest first, NaT last,
\* equal timestamps in frame order.
RECURSIVE insert_desc(_, _)
insert_desc(sorted, row) ==
    IF sorted = <<>> THEN <<row>>
    ELSE IF Head(sorted).published_date >= row.published_date
         THEN <<Head(sorted)>> \o insert_desc(Tail(sorted), row)
         ELSE <<row>> \o sorted

RECURSIVE sort_values_desc(_)
sort_values_desc(frame) ==
    IF frame = <<>> THEN <<>>
    ELSE insert_desc(sort_values_desc(SubSeq(frame, 1, Len(frame) - 1)), frame[Len(frame)])

head(frame, n) == SubSeq(frame, 1, IF Len(frame) < n THEN Len(frame) ELSE n)

recent_reviews(frame) == head(sort_values_desc(frame), TableRows)

\* ------------------------------------------------------ the CSV files
Words == {NaNText, <<"flight">>, <<"great">>}

BaseRow ==
    [published_date |-> 0, published_platform |-> "A", type |-> "X", rating |-> 4,
     title |-> <<"great">>, text |-> NaNText]

\* Rows that differ in platform and review type.
RowsByCategory ==
    {[BaseRow EXCEPT !.published_platform = p, !.type = t] :
        p \in {"A", "B", NaNStr}, t \in {"X", "Y", NaNStr}}

\* Rows that differ in rating: empty, unparseable, or any number, inside the
\* documented 1..5 or not.
RowsByRating ==
    {[BaseRow EXCEPT !.rating = r] : r \in {NaN, Unparseable} \cup (0..MaxRating)}

\* Rows that differ in timestamp: empty, unparseable, or any instant.
RowsByDate ==
    {[BaseRow EXCEPT !.published_date = d] : d \in {NaN, Unparseable} \cup (0..MaxTs)}

\* Rows that differ in rating bucket and in their texts.
RowsByText ==
    {[BaseRow EXCEPT !.rating = r, !.title = a, !.text = b] :
        r \in {NegativeCeil, PositiveFloor}, a \in Words, b \in {NaNText, <<"the", "airline">>}}

\* Rows that differ in platform, rating and day at once.
RowsMixed ==
    {[BaseRow EXCEPT !.published_platform = p, !.rating = r, !.published_date = d] :
        p \in {"A", "B"}, r \in {3, 4}, d \in {0, TicksPerDay}}

\* Rows whose rating or timestamp, or both, cannot be parsed.
RowsCoerced ==
    {[BaseRow EXCEPT !.rating = r, !.published_date = d] :
        r \in {Unparseable, PositiveFloor}, d \in {Unparseable, 0}}

TablesOver(U) == UNION {[1..n -> U] : n \in 1..MaxRows}

CsvFiles ==
    TablesOver(RowsByCategory) \cup TablesOver(RowsByRating) \cup TablesOver(RowsByDate)
        \cup TablesOver(RowsByText) \cup TablesOver(RowsMixed) \cup TablesOver(RowsCoerced)

\* ---------------------------------------------------------------- state
VARIABLES
    df,                 \* the table load_data returned (cached by st.cache_data)
    widgets,            \* the sidebar's widget values, as the user entered them
    pc,                 \* the statement group the script is at
    start_date,         \* the script's variables of the current run
    end_date,
    filtered,
    avg_rating,
    positive_share,
    negative_share,
    median_rating,
    ratings_chart,
    trend,
    positive_reviews,
    positive_text,
    negative_reviews,
    negative_text,
    table,
    assigned,           \* the names the current run has assigned
    generate_calls,     \* the clouds WordCloud.generate was called for
    page                \* the elements the current run has rendered

vars ==
    <<df, widgets, pc, start_date, end_date, filtered, avg_rating, positive_share,
      negative_share, median_rating, ratings_chart, trend, positive_reviews, positive_text,
      negative_reviews, negative_text, table, assigned, generate_calls, page>>

\* The script's namespace and the page at the start of an execution.
FreshRun ==
    /\ start_date = NaN
    /\ end_date = NaN
    /\ filtered = <<>>
    /\ avg_rating = Frac(0, 0)
    /\ positive_share = Frac(0, 0)
    /\ negative_share = Frac(0, 0)
    /\ median_rating = Frac(0, 0)
    /\ ratings_chart = <<>>
    /\ trend = <<>>
    /\ positive_reviews = <<>>
    /\ positive_text = <<>>
    /\ negative_reviews = <<>>
    /\ negative_text = <<>>
    /\ table = <<>>
    /\ assigned = {}
    /\ generate_calls = {}
    /\ page = <<>>

\* Lines 19-28: the table is loaded once; a table without any valid date (or
\* without rows) fails at line 48 before anything is rendered and is left out.
Init ==
    /\ \E csv \in CsvFiles :
        /\ df = load_data(csv)
        /\ notna_any(load_data(csv), "date")
    /\ widgets = default_widgets(df)
    /\ pc = "sidebar"
    /\ FreshRun

UnchangedRun ==
    UNCHANGED <<avg_rating, positive_share, negative_share, median_rating, ratings_chart,
                trend, positive_reviews, positive_text, negative_reviews, negative_text,
                table, generate_calls>>

\* Lines 33-51: the script reads the widgets.
Sidebar ==
    /\ pc = "sidebar"
    /\ start_date' = widgets.start_date
    /\ end_date' = widgets.end_date
    /\ assigned' = assigned \cup {"start_date", "end_date"}
    /\ pc' = "filter"
    /\ UNCHANGED <<df, widgets, filtered, page>>
    /\ UnchangedRun

\* Mutant: the table is narrowed in place, without the copy.
Filter_in_place ==
    /\ pc = "filter"
    /\ LET out == filter_pipeline(df, [widgets EXCEPT !.start_date = start_date,
                                                      !.end_date = end_date])
       IN  /\ filtered' = out.filtered
           /\ df' = out.filtered
           /\ start_date' = out.start_date
           /\ end_date' = out.end_date
    /\ assigned' = assigned \cup {"filtered"}
    /\ pc' = "empty_check"
    /\ UNCHANGED <<widgets, page, avg_rating, positive_share, negative_share, median_rating,
                   ratings_chart, trend, positive_reviews, positive_text, negative_reviews,
                   negative_text, table, generate_calls>>

\* Lines 53-63.
Filter ==
    /\ pc = "filter"
    /\ LET out == filter_pipeline(df, [widgets EXCEPT !.start_date = start_date,
                                                      !.end_date = end_date])
       IN  /\ filtered' = out.filtered
           /\ start_date' = out.start_date
           /\ end_date' = out.end_date
    /\ assigned' = assigned \cup {"filtered"}
    /\ pc' = "empty_check"
    /\ UNCHANGED <<df, widgets, page>>
    /\ UnchangedRun

\* Lines 65-67: st.warning and st.stop.
EmptyState ==
    /\ pc = "empty_check"
    /\ filtered = <<>>
    /\ page' = Append(page, "warning")
    /\ pc' = "stopped"
    /\ UNCHANGED <<df, widgets, start_date, end_date, filtered, assigned>>
    /\ UnchangedRun

\* Lines 69-89: the summary line and the four metric tiles.
Summary ==
    /\ pc = "empty_check"
    /\ filtered # <<>>
    /\ avg_rating' = mean_rating(filtered)
    /\ positive_share' = positive_share_of(filtered)
    /\ negative_share' = negative_share_of(filtered)
    /\ median_rating' = median_of(filtered)
    /\ assigned' = assigned \cup {"avg_rating", "positive_share", "negative_share", "median_rating"}
    /\ page' = page \o <<"summary", "metrics">>
    /\ pc' = "ratings_chart"
    /\ UNCHANGED <<df, widgets, start_date, end_date, filtered, ratings_chart, trend,
                   positive_reviews, positive_text, negative_reviews, negative_text, table,
                   generate_calls>>

\* Lines 91-101.
RatingsChart ==
    /\ pc = "ratings_chart"
    /\ ratings_chart' = ratings_chart_data(filtered)
    /\ assigned' = assigned \cup {"ratings_chart"}
    /\ page' = Append(page, "ratings_chart")
    /\ pc' = "trend"
    /\ UNCHANGED <<df, widgets, start_date, end_date, filtered, avg_rating, positive_share,
                   negative_share, median_rating, trend, positive_reviews, positive_text,
                   negative_reviews, negative_text, table, generate_calls>>

\* Lines 103-120.
Trend ==
    /\ pc = "trend"
    /\ trend' = trend_of(filtered)
    /\ assigned' = assigned \cup {"trend"}
    /\ page' = Append(page, "trend_chart")
    /\ pc' = "positive_cloud"
    /\ UNCHANGED <<df, widgets, start_date, end_date, filtered, avg_rating, positive_share,
                   negative_share, median_rating, ratings_chart, positive_reviews,
                   positive_text, negative_reviews, negative_text, table, generate_calls>>

\* Lines 145-159.  WordCloud.generate raises ValueError ("We need at least 1
\* word to plot a word cloud") when no word is left after the stopwords; the
\* script does not catch it and the execution ends there.
PositiveCloud ==
    /\ pc = "positive_cloud"
    /\ positive_reviews' = positive_reviews_of(filtered)
    /\ positive_text' = build_review_text(positive_reviews')
    /\ assigned' = assigned \cup {"positive_reviews", "positive_text"}
    /\ IF positive_text' # <<>>
       THEN /\ generate_calls' = generate_calls \cup {"positive"}
            /\ IF cloud_words(positive_text') # <<>>
               THEN page' = Append(page, "positive_image") /\ pc' = "negative_cloud"
               ELSE page' = Append(page, "exception") /\ pc' = "crashed"
       ELSE /\ generate_calls' = generate_calls
            /\ page' = Append(page, "positive_info")
            /\ pc' = "negative_cloud"
    /\ UNCHANGED <<df, widgets, start_date, end_date, filtered, avg_rating, positive_share,
                   negative_share, median_rating, ratings_chart, trend, negative_reviews,
                   negative_text, table>>

\* Lines 161-175.
NegativeCloud ==
    /\ pc = "negative_cloud"
    /\ negative_reviews' = negative_reviews_of(filtered)
    /\ negative_text' = build_review_text(negative_reviews')
    /\ assigned' = assigned \cup {"negative_reviews", "negative_text"}
    /\ IF negative_text' # <<>>
       THEN /\ generate_calls' = generate_calls \cup {"negative"}
            /\ IF cloud_words(negative_text') # <<>>
               THEN page' = Append(page, "negative_image") /\ pc' = "table"
               ELSE page' = Append(page, "exception") /\ pc' = "crashed"
       ELSE /\ generate_calls' = generate_calls
            /\ page' = Append(page, "negative_info")
            /\ pc' = "table"
    /\ UNCHANGED <<df, widgets, start_date, end_date, filtered, avg_rating, positive_share,
                   negative_share, median_rating, ratings_chart, trend, positive_reviews,
                   positive_text, table>>

\* Lines 177-182.
RecentReviews ==
    /\ pc = "table"
    /\ table' = recent_reviews(filtered)
    /\ assigned' = assigned \cup {"table"}
    /\ page' = Append(page, "table")
    /\ pc' = "done"
    /\ UNCHANGED <<df, widgets, start_date, end_date, filtered, avg_rating, positive_share,
                   negative_share, median_rating, ratings_chart, trend, positive_reviews,
                   positive_text, negative_reviews, negative_text, generate_calls>>

RunEnded == pc \in {"stopped", "crashed", "done"}

\* A UI interaction: the widgets take any values and the script is executed
\* again from the top, in a fresh namespace, with the cached table.
Interact ==
    /\ RunEnded
    /\ widgets' \in widget_values(df)
    /\ pc' = "sidebar"
    /\ start_date' = NaN
    /\ end_date' = NaN
    /\ filtered' = <<>>
    /\ avg_rating' = Frac(0, 0)
    /\ positive_share' = Frac(0, 0)
    /\ negative_share' = Frac(0, 0)
    /\ median_rating' = Frac(0, 0)
    /\ ratings_chart' = <<>>
    /\ trend' = <<>>
    /\ positive_reviews' = <<>>
    /\ positive_text' = <<>>
    /\ negative_reviews' = <<>>
    /\ negative_text' = <<>>
    /\ table' = <<>>
    /\ assigned' = {}
    /\ generate_calls' = {}
    /\ page' = <<>>
    /\ UNCHANGED df

Next ==
    \/ Sidebar
    \/ Filter
    \/ EmptyState
    \/ Summary
    \/ RatingsChart
    \/ Trend
    \/ PositiveCloud
    \/ NegativeCloud
    \/ RecentReviews
    \/ Interact

Spec == Init /\ [][Next]_vars

\* --------------------------------------------------------------- claims
RowIndexes(frame) == 1..Len(frame)

SelectedPlatformHolds(row) ==
    widgets.selected_platform # "All" => row.published_platform = widgets.selected_platform

SelectedTypeHolds(row) ==
    widgets.selected_type # "All" => row.type = widgets.selected_type

InRatingRange(row) ==
    /\ row.rating # NaN
    /\ widgets.rating_range[1] <= row.rating
    /\ row.rating <= widgets.rating_range[2]

InDateRange(row) == row.date # NaN /\ start_date <= row.date /\ row.date <= end_date

\* C1: once the filter pipeline has run, every row of the filtered set is a
\* row of the loaded table (each taken at most once) and satisfies every
\* active predicate: the selected platform, the selected review type, the
\* rating range and the date range, whose ends are the two dates entered.
C1_FilteredIsSubsetSatisfyingPredicates ==
    "filtered" \in assigned =>
        /\ \A i \in RowIndexes(filtered) :
            /\ filtered[i] \in Rows(df)
            /\ SelectedPlatformHolds(filtered[i])
            /\ SelectedTypeHolds(filtered[i])
            /\ InRatingRange(filtered[i])
            /\ InDateRange(filtered[i])
        /\ Cardinality(Column(filtered, "index")) = Len(filtered)
        /\ {start_date, end_date} = {widgets.start_date, widgets.end_date}

C1_Witness ==
    /\ "filtered" \in assigned
    /\ widgets.selected_platform # "All"
    /\ widgets.selected_type # "All"
    /\ filtered # <<>>
    /\ Len(filtered) < Len(df)

\* C2: the rating range is inclusive at both bounds: a loaded row whose
\* rating is exactly lo or exactly hi and which satisfies the platform, type
\* and date predicates is in the filtered set.
C2_RatingRangeInclusive ==
    "filtered" \in assigned =>
        \A row \in Rows(df) :
            ( /\ row.rating \in {widgets.rating_range[1], widgets.rating_range[2]}
              /\ SelectedPlatformHolds(row)
              /\ SelectedTypeHolds(row)
              /\ InDateRange(row) ) => row \in Rows(filtered)

C2_Witness ==
    /\ "filtered" \in assigned
    /\ widgets.rating_range[1] < widgets.rating_range[2]
    /\ \E row \in Rows(filtered) : row.rating = widgets.rating_range[1]
    /\ \E row \in Rows(filtered) : row.rating = widgets.rating_range[2]
    /\ widgets.selected_platform # "All"

\* C3: the date predicate applied has start <= end, and the filtered set for
\* the dates entered is the filtered set for the same dates entered in the
\* other order.
C3_ReversedDatesNormalized ==
    "filtered" \in assigned =>
        /\ start_date <= end_date
        /\ filtered = filter_pipeline(df, [widgets EXCEPT !.start_date = widgets.end_date,
                                                          !.end_date = widgets.start_date]).filtered

C3_Witness ==
    /\ "filtered" \in assigned
    /\ widgets.start_date > widgets.end_date
    /\ filtered # <<>>
    /\ Len(filtered) < Len(df)

Rendered == {page[i] : i \in 1..Len(page)}

DownstreamNames ==
    {"avg_rating", "positive_share", "negative_share", "median_rating", "ratings_chart",
     "trend", "positive_reviews", "positive_text", "negative_reviews", "negative_text", "table"}

\* C4: a run whose filtered set is empty shows the empty-state notice and
\* stops, computing no metric and reaching no chart, cloud or table step; a
\* run whose filtered set is not empty shows no notice and runs every
\* downstream step.
C4_EmptyStateShortCircuit ==
    RunEnded =>
        IF filtered = <<>>
        THEN /\ page = <<"warning">>
             /\ assigned \cap DownstreamNames = {}
             /\ generate_calls = {}
        ELSE /\ "warning" \notin Rendered
             /\ DownstreamNames \subseteq assigned
             /\ {"summary", "metrics", "ratings_chart", "trend_chart", "table"} \subseteq Rendered
             /\ Rendered \cap {"positive_image", "positive_info"} # {}
             /\ Rendered \cap {"negative_image", "negative_info"} # {}

RECURSIVE SumReviews(_)
SumReviews(buckets) ==
    IF buckets = <<>> THEN 0 ELSE Head(buckets).reviews + SumReviews(Tail(buckets))

\* C5: the monthly counts of the trend sum to the number of filtered rows that
\* have a timestamp; each such row falls in exactly one bucket, and the
\* buckets are in chronological order.
C5_TrendCountsSumToDatedRows ==
    "trend" \in assigned =>
        /\ SumReviews(trend) =
              Cardinality({i \in RowIndexes(filtered) : filtered[i].published_date # NaN})
        /\ \A i \in RowIndexes(filtered) :
              filtered[i].published_date # NaN =>
                 Cardinality({k \in 1..Len(trend) :
                    trend[k].published_date = month_of(filtered[i].published_date)}) = 1
        /\ \A k \in 1..(Len(trend) - 1) : trend[k].published_date < trend[k + 1].published_date

C5_Witness ==
    /\ "trend" \in assigned
    /\ Len(trend) >= 2
    /\ Len(filtered) >= 2
    /\ \E k \in 1..Len(trend) : trend[k].reviews = 1

\* C6: positive_share is 100 times the number of filtered rows rated 4 or
\* more over the number of filtered rows, negative_share the same for rows
\* rated 2 or less; their sum is at most 100, and below 100 when some
\* filtered row is rated 3.
C6_SharesAreBucketPercentages ==
    "positive_share" \in assigned =>
        LET n   == Len(filtered)
            pos == Cardinality({i \in RowIndexes(filtered) :
                      filtered[i].rating # NaN /\ filtered[i].rating >= 4})
            neg == Cardinality({i \in RowIndexes(filtered) :
                      filtered[i].rating # NaN /\ filtered[i].rating <= 2})
        IN  /\ n > 0
            /\ positive_share = Frac(100 * pos, n)
            /\ negative_share = Frac(100 * neg, n)
            /\ positive_share.num + negative_share.num <= 100 * n
            /\ (\E i \in RowIndexes(filtered) : filtered[i].rating = 3) =>
                  positive_share.num + negative_share.num < 100 * n

C6_Witness ==
    /\ "positive_share" \in assigned
    /\ \E i \in RowIndexes(filtered) : filtered[i].rating = 3
    /\ \E i \in RowIndexes(filtered) : filtered[i].rating = 4
    /\ positive_share = Frac(100, 2)

\* C7: for each keyword cloud, when no word of the corpus is left after the
\* stopwords, the placeholder is shown and no image generation is attempted;
\* an image is generated only when a non-stopword word remains.
C7_PlaceholderWhenCorpusEmpty ==
    /\ "positive_text" \in assigned =>
          /\ cloud_words(positive_text) = <<>> =>
                "positive_info" \in Rendered /\ "positive" \notin generate_calls
          /\ "positive" \in generate_calls => cloud_words(positive_text) # <<>>
    /\ "negative_text" \in assigned =>
          /\ cloud_words(negative_text) = <<>> =>
                "negative_info" \in Rendered /\ "negative" \notin generate_calls
          /\ "negative" \in generate_calls => cloud_words(negative_text) # <<>>

\* What the variables a run has assigned hold, as a function of the loaded
\* table and the widget values alone.
OutputIsFunctionOfTableAndWidgets ==
    LET f == filter_pipeline(df, widgets).filtered
    IN  /\ filtered = f
        /\ "avg_rating" \in assigned =>
              /\ avg_rating = mean_rating(f)
              /\ median_rating = median_of(f)
              /\ positive_share = positive_share_of(f)
              /\ negative_share = negative_share_of(f)
        /\ "ratings_chart" \in assigned => ratings_chart = ratings_chart_data(f)
        /\ "trend" \in assigned => trend = trend_of(f)
        /\ "positive_text" \in assigned =>
              positive_text = build_review_text(positive_reviews_of(f))
        /\ "negative_text" \in assigned =>
              negative_text = build_review_text(negative_reviews_of(f))
        /\ "table" \in assigned => table = recent_reviews(f)
        /\ page = <<"warning">> <=> f = <<>>

\* C8: no step of any run changes the loaded table, and what a finished run
\* has produced depends only on the loaded table and that run's widget
\* values, whatever runs came before.
C8_TableNeverMutatedOutputFunctional ==
    /\ [][df' = df]_vars
    /\ [](RunEnded => OutputIsFunctionOfTableAndWidgets)

C8_Witness ==
    /\ pc = "done"
    /\ widgets # default_widgets(df)
    /\ Len(filtered) < Len(df)

\* C9: the rows fed to the positive cloud are exactly the filtered rows
\* counted in positive_share (rating >= 4), and the rows fed to the negative
\* cloud exactly those counted in negative_share (rating <= 2).
C9_CloudBucketsMatchShares ==
    /\ "positive_reviews" \in assigned =>
          Rows(positive_reviews) =
             {row \in Rows(filtered) : row.rating # NaN /\ row.rating >= 4}
    /\ "negative_reviews" \in assigned =>
          Rows(negative_reviews) =
             {row \in Rows(filtered) : row.rating # NaN /\ row.rating <= 2}

\* C10: no filtered row has a null rating or a null timestamp, also with
\* every widget at its default; so the mean and the median have no null to
\* skip and the trend's drop of null timestamps removes no row.
C10_NullRowsNeverFiltered ==
    "filtered" \in assigned =>
        /\ \A i \in RowIndexes(filtered) :
              /\ filtered[i].rating # NaN
              /\ filtered[i].published_date # NaN
              /\ filtered[i].date # NaN
        /\ dropna(filtered, "published_date") = filtered
        /\ dropna(filtered, "rating") = filtered
        /\ "avg_rating" \in assigned => avg_rating.den = Len(filtered)

C10_Witness ==
    /\ "trend" \in assigned
    /\ widgets = default_widgets(df)
    /\ \E row \in Rows(df) : row.rating = NaN
    /\ \E row \in Rows(df) : row.published_date = NaN
    /\ filtered # <<>>

====
